---- MODULE Spec2Model ----
(***************************************************************************)
(* Automation rule engine (AutomationExecutor) and follow-up scheduler     *)
(* (FollowUpAutomationService) of the WhatsApp CRM backend, over the       *)
(* relational store they share.                                            *)
(*                                                                         *)
(* The store is modelled table by table (contacts, contact_tags, messages, *)
(* automation_rules, automation_logs, pipeline_history); the messaging     *)
(* provider is an outbox plus a send outcome chosen by the environment.    *)
(* An async function of the source is an operator from a store record to a *)
(* result record [s |-> store after, err |-> "" or the error message].     *)
(***************************************************************************)
EXTENDS Integers, Sequences, FiniteSets, TLC

(***************************************************************************)
(* Bounds of the model.                                                    *)
(***************************************************************************)
MaxRules == 2
\* operations per behaviour: of the follow-up service, calls of
\* triggerAutomation
MaxOps == 3
MaxDispatches == 1
MaxTime == 50

ContactIds == {1, 2}
\* an id that names no row of contacts (a deleted or never created contact)
GhostContact == 3
\* payload without contact_id
NoContact == 0
Businesses == {1, 2}
\* every contact of the model belongs to tenant 1; tenant 2 only owns rules
ContactBusiness(c) == 1

Stages == {"New", "Contacted", "Qualified", "Proposal", "Negotiation", "Won", "Lost"}

(***************************************************************************)
(* Text.  A text is the sequence of its atoms: a maximal run of word       *)
(* characters is one atom, every other character is an atom of its own.    *)
(* \bkeyword\b then matches exactly where the atoms of the keyword occur   *)
(* as a contiguous block of the atoms of the content (every keyword begins *)
(* and ends with a word atom).                                             *)
(***************************************************************************)
TextProceed == <<"Yes", ",", " ", "let", "'", "s", " ", "proceed", " ", "with", " ", "the", " ", "order">>
TextThink == <<"I", " ", "need", " ", "to", " ", "think", " ", "about", " ", "it">>
TextLetMeThink == <<"Let", " ", "me", " ", "think">>
TextNoThanks == <<"No", " ", "thanks">>
TextHello == <<"Hello">>
Texts == {TextProceed, TextThink, TextLetMeThink, TextNoThanks}

\* messages of up to MaxWords words separated by blanks, the words taken from
\* the three keyword lists and from outside them
MaxWords == 2
PriorityWords == {"Yes", "no", "maybe", "not", "sure", "Hello"}
RECURSIVE WordTexts(_)
WordTexts(n) ==
  IF n = 1 THEN { <<w>> : w \in PriorityWords }
  ELSE WordTexts(n - 1) \cup { t \o <<" ", w>> : t \in WordTexts(n - 1), w \in PriorityWords }
PriorityTexts == WordTexts(MaxWords)

\* String.prototype.toLowerCase on one atom (the capitalised atoms of Texts)
LowerAtom(a) ==
  CASE a = "Yes" -> "yes"
    [] a = "I" -> "i"
    [] a = "Let" -> "let"
    [] a = "No" -> "no"
    [] a = "Hello" -> "hello"
    [] OTHER -> a

toLowerCase(text) == [i \in 1..Len(text) |-> LowerAtom(text[i])]

dealClosedKeywords ==
  { <<"yes">>, <<"sure">>, <<"confirmed">>, <<"deal">>, <<"agreed">>, <<"accept">>,
    <<"buy">>, <<"purchase">>, <<"order">>, <<"booking">>, <<"book">>, <<"reserve">>,
    <<"confirm">>, <<"go", " ", "ahead">>, <<"proceed">>, <<"perfect">>, <<"great">>,
    <<"sounds", " ", "good">>, <<"count", " ", "me", " ", "in">>, <<"i", "'", "m", " ", "in">> }

dealLostKeywords ==
  { <<"no", " ", "thanks">>, <<"not", " ", "interested">>, <<"no">>, <<"cancel">>,
    <<"nevermind">>, <<"never", " ", "mind">>, <<"too", " ", "expensive">>, <<"expensive">>,
    <<"can", "'", "t", " ", "afford">>, <<"not", " ", "now">>, <<"maybe", " ", "later">>,
    <<"not", " ", "for", " ", "me">>, <<"pass">>, <<"decline">>, <<"reject">> }

needsFollowUpKeywords ==
  { <<"thinking">>, <<"maybe">>, <<"consider">>, <<"let", " ", "me", " ", "think">>,
    <<"not", " ", "sure">>, <<"hmm">>, <<"i", "'", "ll", " ", "let", " ", "you", " ", "know">>,
    <<"get", " ", "back", " ", "to", " ", "you">>, <<"discuss">>, <<"check">>, <<"see">> }

\* new RegExp(`\\b${keyword}\\b`, 'i').test(content)
KeywordMatches(content, keyword) ==
  \E i \in 1..Len(content) :
    /\ i + Len(keyword) - 1 <= Len(content)
    /\ \A j \in 1..Len(keyword) : LowerAtom(content[i + j - 1]) = keyword[j]

containsKeywords(content, keywords) ==
  \E k \in keywords : KeywordMatches(content, k)

(***************************************************************************)
(* Follow-up rule table (followUpRules).                                   *)
(***************************************************************************)
followUpRules ==
  << [stage |-> "New", hoursAfterLastMessage |-> 24, maxFollowUps |-> 3],
     [stage |-> "Contacted", hoursAfterLastMessage |-> 48, maxFollowUps |-> 2],
     [stage |-> "Qualified", hoursAfterLastMessage |-> 24, maxFollowUps |-> 3],
     [stage |-> "Proposal", hoursAfterLastMessage |-> 12, maxFollowUps |-> 4],
     [stage |-> "Negotiation", hoursAfterLastMessage |-> 6, maxFollowUps |-> 5] >>

HasFollowUpRule(stage) == \E i \in 1..Len(followUpRules) : followUpRules[i].stage = stage

\* followUpRules.find(r => r.stage === stage), where one exists
FindFollowUpRule(stage) ==
  followUpRules[CHOOSE i \in 1..Len(followUpRules) :
                  /\ followUpRules[i].stage = stage
                  /\ \A j \in 1..(i - 1) : followUpRules[j].stage # stage]


(***************************************************************************)
(* JSON values of payloads, conditions and actions, tagged by typeof.      *)
(***************************************************************************)
Num(n) == [t |-> "number", v |-> n]
Str(x) == [t |-> "string", v |-> x]
Undefined == [t |-> "undefined"]

\* a condition entry is a literal or an object {operator, value}
Literal(v) == [kind |-> "literal", value |-> v]
Cmp(op, v) == [kind |-> "object", operator |-> op, value |-> v]
Entry(k, e) == [key |-> k, expected |-> e]
\* the JSON condition: null (isNull) or an object with its entries in order
Condition(es) == [isNull |-> FALSE, entries |-> es]
NullCondition == [isNull |-> TRUE, entries |-> << >>]

\* data[key] of a TriggerData object
Field(data, key) ==
  IF key = "contact_id"
  THEN (IF data.contact_id = NoContact THEN Undefined ELSE Num(data.contact_id))
  ELSE IF key = "business_id" THEN Num(data.business_id)
  ELSE IF key \in DOMAIN data.fields THEN data.fields[key]
  ELSE Undefined

\* Number(x): NaN for undefined and for the (non-numeric) strings of the model
IsNaN(x) == x.t # "number"
NumberOf(x) == IF x.t = "number" THEN x.v ELSE 0

\* String(x) for the values of the model (numbers of the model are 0..999)
Digit(d) == SubSeq("0123456789", d + 1, d + 1)
NumberToString(n) ==
  IF n < 10 THEN Digit(n)
  ELSE IF n < 100 THEN Digit(n \div 10) \o Digit(n % 10)
  ELSE Digit(n \div 100) \o Digit((n \div 10) % 10) \o Digit(n % 10)
StringOf(x) ==
  CASE x.t = "string" -> x.v
    [] x.t = "number" -> NumberToString(x.v)
    [] OTHER -> "undefined"

\* String.prototype.includes
Includes(str, sub) ==
  \E i \in 1..(Len(str) - Len(sub) + 1) : SubSeq(str, i, i + Len(sub) - 1) = sub

\* one entry of the condition against the payload: TRUE when it does not
\* make evaluateCondition return false
EntryMatches(e, data) ==
  LET actualValue == Field(data, e.key)
      value == e.expected.value
  IN IF e.expected.kind = "object"
     THEN CASE e.expected.operator = "equals" -> actualValue = value
            [] e.expected.operator = "not_equals" -> actualValue # value
            [] e.expected.operator = "contains" -> Includes(StringOf(actualValue), StringOf(value))
            [] e.expected.operator = "greater_than" ->
                 ~(~IsNaN(actualValue) /\ ~IsNaN(value) /\ NumberOf(actualValue) <= NumberOf(value))
            [] e.expected.operator = "less_than" ->
                 ~(~IsNaN(actualValue) /\ ~IsNaN(value) /\ NumberOf(actualValue) >= NumberOf(value))
            [] OTHER -> FALSE
     ELSE actualValue = value

\* evaluateCondition where a rule without conditions matches nothing
evaluateConditionRequired(condition, data) ==
  /\ ~condition.isNull
  /\ Len(condition.entries) > 0
  /\ \A i \in 1..Len(condition.entries) : EntryMatches(condition.entries[i], data)

evaluateCondition(condition, data) ==
  IF condition.isNull \/ Len(condition.entries) = 0
  THEN TRUE
  ELSE \A i \in 1..Len(condition.entries) : EntryMatches(condition.entries[i], data)


(***************************************************************************)
(* State.                                                                  *)
(***************************************************************************)
VARIABLES
  contacts,    \* contacts: id -> [business_id, stage, last_active (non-null)]
  tags,        \* contact_tags rows, in insertion order
  msgs,        \* messages rows, in insertion order
  rules,       \* automation_rules rows; the id of a row is its index
  logs,        \* automation_logs rows
  hist,        \* pipeline_history rows
  outbox,      \* messages accepted by the WhatsApp provider
  uniqueTags,  \* whether contact_tags carries UNIQUE(contact_id, tag)
  now,         \* clock, in hours
  ops,         \* number of operations run so far
  last,        \* the last operation: its inputs, logger lines and outcome
  adders,      \* concurrent tag additions: caller -> [pc, err]
  runs         \* interleaved operations: caller -> [pc, rows read, stage read]

vars == <<contacts, tags, msgs, rules, logs, hist, outbox, uniqueTags, now, ops, last, adders, runs>>

\* the callers that add a tag concurrently: two calls of addContactTag (two
\* webhook calls for one contact, or the hourly job and POST /process) and
\* an add_tag action
Adders == {"service", "service2", "action"}
NoAdders == [p \in Adders |-> [pc |-> "idle", tag |-> "", err |-> ""]]

\* the operations whose awaited queries interleave: the hourly job, an
\* on-demand run of it, the classifier on one message, an update_stage action
Runners == {"cron", "manual", "classifier", "action"}
NoRuns == [p \in Runners |-> [pc |-> "idle", rows |-> << >>, stage |-> ""]]

\* the store as one record, with the clock and the logger lines of the
\* running operation
Store ==
  [contacts |-> contacts, tags |-> tags, msgs |-> msgs, rules |-> rules,
   logs |-> logs, hist |-> hist, outbox |-> outbox, uniqueTags |-> uniqueTags,
   now |-> now, events |-> << >>]

Ok(s) == [s |-> s, err |-> ""]
Fail(s, e) == [s |-> s, err |-> e]

\* logger.info / logger.warn / logger.error: the line ev about the rule or
\* contact ref (0 when it is about the whole operation)
LogError(s, ref, ev, msg) == [s EXCEPT !.events = Append(@, [ref |-> ref, ev |-> ev, msg |-> msg])]
Log(s, ref, ev) == LogError(s, ref, ev, "")

ContactExists(c) == c \in ContactIds

(***************************************************************************)
(* Faults.  A fault plan is the set of points of one operation at which    *)
(* the environment fails: <<i, "send">> the provider rejects the send of   *)
(* the i-th item, <<i, "store">> a query of its action fails, <<i, "logS">>*)
(* and <<i, "logF">> the INSERT of its success / failed log row fails,     *)
(* <<0, "fetch">> the initial SELECT fails.                                *)
(***************************************************************************)
StoreError == "connection error"
FkError == "violates foreign key constraint contact_tags_contact_id_fkey"
LogFkError == "violates foreign key constraint automation_logs_contact_id_fkey"
UniqueError == "duplicate key value violates unique constraint"

(***************************************************************************)
(* whatsapp.service: sendMessage / sendTemplateMessage wrappers.  A phone  *)
(* number is identified with the contact that owns it.                     *)
(***************************************************************************)
TemplateIds == {1}

SendAndStore(s, businessId, phone, content, error, sendFails, storeFails) ==
  IF sendFails
  THEN Fail(Log(s, phone, "send_error"), error)
  ELSE LET s1 == [s EXCEPT !.outbox = Append(@, [business_id |-> businessId, to |-> phone])]
       IN IF storeFails THEN Fail(s1, StoreError)
          ELSE IF ~(ContactExists(phone) /\ s1.contacts[phone].business_id = businessId)
          THEN Fail(s1, "Contact not found")
          ELSE Ok([s1 EXCEPT !.msgs = Append(@, [contact_id |-> phone, direction |-> "outbound",
                                                 content |-> content, sent_at |-> s1.now])])

\* sendMessage without the INSERT of the outbound message
sendMessageUnrecorded(s, businessId, phone, content, sendFails, storeFails) ==
  IF sendFails THEN Fail(Log(s, phone, "send_error"), "Failed to send message")
  ELSE Ok([s EXCEPT !.outbox = Append(@, [business_id |-> businessId, to |-> phone])])

sendMessage(s, businessId, phone, content, sendFails, storeFails) ==
  SendAndStore(s, businessId, phone, content, "Failed to send message", sendFails, storeFails)

sendTemplateMessage(s, businessId, phone, templateId, sendFails, storeFails) ==
  IF templateId \notin TemplateIds
  THEN Fail(s, "Template not found")
  ELSE SendAndStore(s, businessId, phone, <<"Template">>, "Failed to send template message",
                    sendFails, storeFails)

(***************************************************************************)
(* AutomationExecutor.                                                     *)
(***************************************************************************)
logExecution(s, ruleId, contactId, status, triggerData, errorMessage, fails) ==
  IF fails THEN Fail(s, StoreError)
  ELSE IF contactId # NoContact /\ ~ContactExists(contactId) THEN Fail(s, LogFkError)
  ELSE Ok([s EXCEPT !.logs = Append(@, [rule_id |-> ruleId, contact_id |-> contactId,
                                        status |-> status, trigger_data |-> triggerData,
                                        error_message |-> errorMessage])])

sendMessageAction(s, action, data, businessId, f) ==
  IF data.contact_id = NoContact THEN Fail(s, "Contact ID required for send_message action")
  ELSE IF "store" \in f THEN Fail(s, StoreError)
  ELSE IF ~(ContactExists(data.contact_id) /\ s.contacts[data.contact_id].business_id = businessId)
  THEN Fail(s, "Contact not found")
  ELSE LET r == sendMessage(s, businessId, data.contact_id, action.message, "send" \in f, FALSE)
       IN IF r.err # "" THEN r ELSE Ok(Log(r.s, data.contact_id, "sent"))

sendTemplateAction(s, action, data, businessId, f) ==
  IF data.contact_id = NoContact THEN Fail(s, "Contact ID required for send_template action")
  ELSE IF "store" \in f THEN Fail(s, StoreError)
  ELSE IF ~(ContactExists(data.contact_id) /\ s.contacts[data.contact_id].business_id = businessId)
  THEN Fail(s, "Contact not found")
  ELSE LET r == sendTemplateMessage(s, businessId, data.contact_id, action.template_id, "send" \in f, FALSE)
       IN IF r.err # "" THEN r ELSE Ok(Log(r.s, data.contact_id, "sent"))

\* an update_stage action that records the change in pipeline_history, as
\* the pipeline route does
updateStageActionRecorded(s, action, data, f) ==
  IF data.contact_id = NoContact THEN Fail(s, "Contact ID required for update_stage action")
  ELSE IF "store" \in f THEN Fail(s, StoreError)
  ELSE IF ContactExists(data.contact_id)
  THEN Ok([s EXCEPT !.contacts[data.contact_id].stage = action.stage,
                    !.hist = Append(@, [business_id |-> s.contacts[data.contact_id].business_id,
                                        contact_id |-> data.contact_id,
                                        from_stage |-> s.contacts[data.contact_id].stage,
                                        to_stage |-> action.stage])])
  ELSE Ok(s)

updateStageAction(s, action, data, f) ==
  IF data.contact_id = NoContact THEN Fail(s, "Contact ID required for update_stage action")
  ELSE IF "store" \in f THEN Fail(s, StoreError)
  ELSE IF ContactExists(data.contact_id)
  THEN Ok([s EXCEPT !.contacts[data.contact_id].stage = action.stage])
  ELSE Ok(s)

\* INSERT INTO contact_tags under the constraints of the table
InsertTag(s, businessId, contactId, tag) ==
  IF ~ContactExists(contactId) THEN Fail(s, FkError)
  ELSE IF s.uniqueTags /\ \E i \in 1..Len(s.tags) :
                             s.tags[i].contact_id = contactId /\ s.tags[i].tag = tag
  THEN Fail(s, UniqueError)
  ELSE Ok([s EXCEPT !.tags = Append(@, [business_id |-> businessId, contact_id |-> contactId,
                                        tag |-> tag])])

addTagAction(s, action, data, businessId, f) ==
  IF data.contact_id = NoContact THEN Fail(s, "Contact ID required for add_tag action")
  ELSE IF "store" \in f THEN Fail(s, StoreError)
  ELSE IF \E i \in 1..Len(s.tags) :
            /\ s.tags[i].contact_id = data.contact_id
            /\ s.tags[i].tag = action.tag
            /\ s.tags[i].business_id = businessId
  THEN Ok(s)
  ELSE InsertTag(s, businessId, data.contact_id, action.tag)

executeAction(s, ruleId, data, f) ==
  LET rule == s.rules[ruleId]
      action == rule.action
      r == CASE action.type = "send_message" -> sendMessageAction(s, action, data, rule.business_id, f)
             [] action.type = "send_template" -> sendTemplateAction(s, action, data, rule.business_id, f)
             [] action.type = "update_stage" -> updateStageAction(s, action, data, f)
             [] action.type = "add_tag" -> addTagAction(s, action, data, rule.business_id, f)
             [] OTHER -> Ok(Log(s, ruleId, "unknown_action_type"))
  IN IF r.err # "" THEN r
     ELSE LET l == logExecution(r.s, ruleId, data.contact_id, "success", data, "", "logS" \in f)
          IN IF l.err # "" THEN l ELSE Ok(Log(l.s, ruleId, "executed"))

\* scheduleDelayedAction leaving the action to a job queue
scheduleDelayedActionDeferred(s, ruleId, data, f) ==
  Ok(Log(s, ruleId, "delay_not_implemented"))

scheduleDelayedAction(s, ruleId, data, f) ==
  executeAction(Log(s, ruleId, "delay_not_implemented"), ruleId, data, f)


\* SELECT * FROM automation_rules WHERE business_id = $1 AND trigger = $2
findMatchingRules(s, trigger, businessId) ==
  { i \in 1..Len(s.rules) : s.rules[i].business_id = businessId /\ s.rules[i].trigger = trigger }

FaultsAt(plan, i) == { k \in {"send", "store", "logS", "logF"} : <<i, k>> \in plan }

\* the body of the per-rule try of executeTrigger
RuleTry(s, ruleId, data, f) ==
  IF evaluateCondition(s.rules[ruleId].condition, data)
  THEN LET s1 == Log(s, ruleId, "matched")
       IN IF s1.rules[ruleId].delay_minutes > 0
          THEN scheduleDelayedAction(s1, ruleId, data, f)
          ELSE executeAction(s1, ruleId, data, f)
  ELSE Ok(Log(s, ruleId, "not_matched"))

\* one iteration of the loop: the try and its catch; an error of the result
\* is one that leaves the catch
ExecuteRule(s, ruleId, data, f) ==
  LET r == RuleTry(s, ruleId, data, f)
  IN IF r.err = "" THEN r
     ELSE logExecution(LogError(r.s, ruleId, "error", r.err), ruleId, data.contact_id, "failed",
                       data, r.err, "logF" \in f)

\* for (const rule of rules) { try { ... } catch { ... } } from position i on
RECURSIVE ExecuteRules(_, _, _, _, _)
ExecuteRules(s, order, i, data, plan) ==
  IF i > Len(order) THEN Ok(s)
  ELSE LET r == ExecuteRule(s, order[i], data, FaultsAt(plan, i))
       IN IF r.err # "" THEN r
          ELSE ExecuteRules(r.s, order, i + 1, data, plan)

\* executeTrigger without its outer try/catch
ExecuteTriggerMissingCatch(s, trigger, data, order, plan) ==
  IF <<0, "fetch">> \in plan THEN Fail(s, StoreError)
  ELSE ExecuteRules(s, order, 1, data, plan)

\* order: the rows of findMatchingRules in the order the store returns them
executeTrigger(s, trigger, data, order, plan) ==
  IF <<0, "fetch">> \in plan THEN Ok(LogError(s, 0, "trigger_error", StoreError))
  ELSE IF Len(order) = 0 THEN Ok(s)
  ELSE LET r == ExecuteRules(s, order, 1, data, plan)
       IN IF r.err # "" THEN Ok(LogError(r.s, 0, "trigger_error", r.err)) ELSE r

triggerAutomation(s, trigger, data, order, plan) ==
  executeTrigger(s, trigger, data, order, plan)


(***************************************************************************)
(* FollowUpAutomationService.                                              *)
(***************************************************************************)
\* the cascade testing the Lost keywords before the Won keywords
DealStatusLostFirst(content) ==
  IF containsKeywords(content, dealLostKeywords)
  THEN [newStage |-> "Lost", addTag |-> "deal-lost"]
  ELSE IF containsKeywords(content, dealClosedKeywords)
  THEN [newStage |-> "Won", addTag |-> "deal-closed"]
  ELSE IF containsKeywords(content, needsFollowUpKeywords)
  THEN [newStage |-> "", addTag |-> "needs-followup"]
  ELSE [newStage |-> "", addTag |-> ""]

\* the keyword cascade of analyzeMessageForDealStatus; "" stands for null
DealStatus(content) ==
  IF containsKeywords(content, dealClosedKeywords)
  THEN [newStage |-> "Won", addTag |-> "deal-closed"]
  ELSE IF containsKeywords(content, dealLostKeywords)
  THEN [newStage |-> "Lost", addTag |-> "deal-lost"]
  ELSE IF containsKeywords(content, needsFollowUpKeywords)
  THEN [newStage |-> "", addTag |-> "needs-followup"]
  ELSE [newStage |-> "", addTag |-> ""]

\* updateContactStage without its INSERT INTO pipeline_history
updateContactStageNoHistory(s, contactId, businessId, fromStage, toStage, f) ==
  IF "update" \in f THEN Fail(s, StoreError)
  ELSE Ok([s EXCEPT !.contacts[contactId].stage = toStage])

updateContactStage(s, contactId, businessId, fromStage, toStage, f) ==
  IF "update" \in f THEN Fail(s, StoreError)
  ELSE LET s1 == [s EXCEPT !.contacts[contactId].stage = toStage]
       IN IF "history" \in f THEN Fail(s1, StoreError)
          ELSE Ok([s1 EXCEPT !.hist = Append(@, [business_id |-> businessId, contact_id |-> contactId,
                                                 from_stage |-> fromStage, to_stage |-> toStage])])

addContactTag(s, contactId, businessId, tag, f) ==
  IF "tag" \in f THEN Fail(s, StoreError)
  ELSE IF \E i \in 1..Len(s.tags) : s.tags[i].contact_id = contactId /\ s.tags[i].tag = tag
  THEN Ok(s)
  ELSE InsertTag(s, businessId, contactId, tag)

\* messageTemplate of the stage (the name substitution is not modelled)
FollowUpText(stage) == <<"Hi", " ", "there", "!", " ", stage>>

\* the row scheduleFollowUp inserts into automation_rules
FollowUpRule(businessId, contactId, stage, delayMinutes) ==
  [business_id |-> businessId,
   trigger |-> "scheduled_followup",
   condition |-> Condition(<<Entry("contact_id", Literal(Num(contactId)))>>),
   action |-> [type |-> "send_message", message |-> FollowUpText(stage)],
   delay_minutes |-> delayMinutes]

\* scheduleFollowUp falling back on the first entry of followUpRules when
\* the stage has none
scheduleFollowUpAnyStage(s, contactId, businessId, f) ==
  IF ~ContactExists(contactId) THEN Ok(s)
  ELSE LET contact == s.contacts[contactId]
           rule == IF HasFollowUpRule(contact.stage) THEN FindFollowUpRule(contact.stage)
                   ELSE followUpRules[1]
       IN Ok([s EXCEPT !.rules = Append(@, FollowUpRule(businessId, contactId, contact.stage,
                                                      rule.hoursAfterLastMessage * 60))])

\* scheduleFollowUp storing the delay in hours
scheduleFollowUpInHours(s, contactId, businessId, f) ==
  IF ~ContactExists(contactId) THEN Ok(s)
  ELSE LET contact == s.contacts[contactId]
       IN IF ~HasFollowUpRule(contact.stage) THEN Ok(s)
          ELSE Ok([s EXCEPT !.rules = Append(@, FollowUpRule(businessId, contactId, contact.stage,
                                    FindFollowUpRule(contact.stage).hoursAfterLastMessage))])

\* scheduleFollowUp taking the entry of stage New without reading the
\* contact's stage
scheduleFollowUpAsNew(s, contactId, businessId, f) ==
  IF ~ContactExists(contactId) THEN Ok(s)
  ELSE Ok([s EXCEPT !.rules = Append(@, FollowUpRule(businessId, contactId, "New",
                                    FindFollowUpRule("New").hoursAfterLastMessage * 60))])

scheduleFollowUp(s, contactId, businessId, f) ==
  IF "schedule" \in f THEN Fail(s, StoreError)
  ELSE IF ~ContactExists(contactId) THEN Ok(s)
  ELSE LET contact == s.contacts[contactId]
       IN IF ~HasFollowUpRule(contact.stage) THEN Ok(s)
          ELSE LET rule == FindFollowUpRule(contact.stage)
               IN Ok([s EXCEPT !.rules = Append(@, FollowUpRule(businessId, contactId, contact.stage,
                                                              rule.hoursAfterLastMessage * 60))])

\* analyzeMessageForDealStatus after its SELECT returned the message row with
\* the stage of its contact; then the body of the try
AnalyzeRow(s, message, stage, f) ==
  LET business_id == s.contacts[message.contact_id].business_id
      content == toLowerCase(message.content)
      d == DealStatus(content)
  IN IF message.direction = "outbound" THEN Ok(s)
     ELSE LET r1 == IF d.newStage # ""
                    THEN updateContactStage(s, message.contact_id, business_id, stage, d.newStage, f)
                    ELSE Ok(s)
              r2 == IF r1.err # "" THEN r1
                    ELSE IF d.addTag # ""
                    THEN addContactTag(r1.s, message.contact_id, business_id, d.addTag, f)
                    ELSE r1
          IN IF r2.err # "" THEN r2
             ELSE IF d.newStage # "Won" /\ d.newStage # "Lost"
             THEN scheduleFollowUp(r2.s, message.contact_id, business_id, f)
             ELSE r2

AnalyzeBody(s, messageId, f) ==
  IF "select" \in f THEN Fail(s, StoreError)
  ELSE IF messageId \notin 1..Len(s.msgs) THEN Ok(s)
  ELSE AnalyzeRow(s, s.msgs[messageId], s.contacts[s.msgs[messageId].contact_id].stage, f)

analyzeMessageForDealStatus(s, messageId, f) ==
  LET r == AnalyzeBody(s, messageId, f)
  IN IF r.err # "" THEN Ok(LogError(r.s, 0, "analyze_error", r.err)) ELSE r

\* the rows of the SELECT of processPendingFollowUps
LastMessageTimes(s, c) == { s.msgs[i].sent_at : i \in { j \in 1..Len(s.msgs) : s.msgs[j].contact_id = c } }
Max(S) == CHOOSE x \in S : \A y \in S : y <= x
FollowUpCount(s, c) ==
  Cardinality({ i \in 1..Len(s.tags) : s.tags[i].contact_id = c /\ s.tags[i].tag = "followup-sent" })

contactsNeedingFollowUp(s) ==
  { c \in ContactIds :
      /\ s.contacts[c].stage \notin {"Won", "Lost"}
      /\ s.contacts[c].last_active
      /\ LastMessageTimes(s, c) # {}
      /\ Max(LastMessageTimes(s, c)) < s.now - 24 }

FollowUpRow(s, c) ==
  [id |-> c, business_id |-> s.contacts[c].business_id, stage |-> s.contacts[c].stage,
   last_message_time |-> Max(LastMessageTimes(s, c)), followup_count |-> FollowUpCount(s, c)]

\* ProcessContact without the comparison of followup_count to maxFollowUps
ProcessContactNoMax(s, contact, f) ==
  IF ~HasFollowUpRule(contact.stage) THEN Ok(s)
  ELSE LET rule == FindFollowUpRule(contact.stage)
       IN IF s.now - contact.last_message_time >= rule.hoursAfterLastMessage
          THEN LET r == sendMessage(s, contact.business_id, contact.id, FollowUpText(contact.stage),
                                    "send" \in f, "store" \in f)
               IN IF r.err # "" THEN r
                  ELSE LET t == addContactTag(r.s, contact.id, contact.business_id, "followup-sent", f)
                       IN IF t.err # "" THEN t ELSE Ok(Log(t.s, contact.id, "followup_sent"))
          ELSE Ok(s)

\* one iteration of the for loop of processPendingFollowUps
ProcessContact(s, contact, f) ==
  IF ~HasFollowUpRule(contact.stage) THEN Ok(s)
  ELSE LET rule == FindFollowUpRule(contact.stage)
       IN IF contact.followup_count >= rule.maxFollowUps
          THEN Ok(Log(s, contact.id, "max_followups_reached"))
          ELSE IF s.now - contact.last_message_time >= rule.hoursAfterLastMessage
          THEN LET r == sendMessage(s, contact.business_id, contact.id, FollowUpText(contact.stage),
                                    "send" \in f, "store" \in f)
               IN IF r.err # "" THEN r
                  ELSE LET t == addContactTag(r.s, contact.id, contact.business_id, "followup-sent", f)
                       IN IF t.err # "" THEN t ELSE Ok(Log(t.s, contact.id, "followup_sent"))
          ELSE Ok(s)

\* the for loop over rows, the i-th row being rows[i]
RECURSIVE ProcessContacts(_, _, _, _)
ProcessContacts(s, rows, i, plan) ==
  IF i > Len(rows) THEN Ok(s)
  ELSE LET r == ProcessContact(s, rows[i], { k \in {"send", "store", "tag"} : <<i, k>> \in plan })
       IN IF r.err # "" THEN r
          ELSE ProcessContacts(r.s, rows, i + 1, plan)

\* order: the selected contact ids in the order the store returns them
processPendingFollowUps(s, order, plan) ==
  IF <<0, "fetch">> \in plan THEN Ok(LogError(s, 0, "followup_error", StoreError))
  ELSE LET rows == [i \in 1..Len(order) |-> FollowUpRow(s, order[i])]
           r == ProcessContacts(s, rows, 1, plan)
       IN IF r.err # "" THEN Ok(LogError(r.s, 0, "followup_error", r.err)) ELSE r


(***************************************************************************)
(* WhatsAppService.processIncomingMessage for a message of a stored        *)
(* contact (the phone number is identified with the contact).              *)
(***************************************************************************)
\* the payload of the message_received dispatch
ReceivedData(businessId, contactId, messageId, text) ==
  [business_id |-> businessId, contact_id |-> contactId,
   fields |-> [message_id |-> Num(messageId), content |-> Str(text), direction |-> Str("inbound")]]

\* the classifier call with its .catch, on the outcome d of the dispatch
\* with its .catch
AfterDispatch(d, messageId, f) ==
  LET s1 == IF d.err # "" THEN LogError(d.s, 0, "webhook_trigger_error", d.err) ELSE d.s
      a == analyzeMessageForDealStatus(s1, messageId, f)
  IN IF a.err # "" THEN Ok(LogError(a.s, 0, "webhook_analyze_error", a.err)) ELSE Ok(a.s)

\* the steps after the INSERT INTO messages: the awaited dispatch, then the
\* classifier on the store the dispatch left
AfterInsert(s, businessId, contactId, messageId, text, order, plan, f) ==
  CHOOSE r \in { AfterDispatch(d, messageId, f) :
                   d \in { triggerAutomation(s, "message_received",
                                              ReceivedData(businessId, contactId, messageId, text),
                                              order, plan) } } : TRUE

\* processIncomingMessage running the dispatch and the classifier before
\* its INSERT INTO messages
processIncomingMessageInsertLast(s, businessId, contactId, text, order, plan, f) ==
  LET r == AfterInsert(s, businessId, contactId, Len(s.msgs) + 1, text, order, plan, f)
  IN Ok([r.s EXCEPT !.msgs = Append(@, [contact_id |-> contactId, direction |-> "inbound",
                                        content |-> text, sent_at |-> s.now])])

processIncomingMessage(s, businessId, contactId, text, order, plan, f) ==
  IF "lookup" \in f \/ "insert" \in f THEN Fail(LogError(s, 0, "webhook_error", StoreError), StoreError)
  ELSE LET s1 == [s EXCEPT !.contacts[contactId].last_active = TRUE,
                           !.msgs = Append(@, [contact_id |-> contactId, direction |-> "inbound",
                                               content |-> text, sent_at |-> s.now])]
       IN AfterInsert(s1, businessId, contactId, Len(s1.msgs), text, order, plan, f)


(***************************************************************************)
(* Rules an operator can store through POST /api/automation.               *)
(***************************************************************************)
EmptyCondition == Condition(<< >>)
TextWelcome == <<"Welcome", "!">>

RuleWelcome ==
  [business_id |-> 1, trigger |-> "contact_created", condition |-> EmptyCondition,
   action |-> [type |-> "send_message", message |-> TextWelcome], delay_minutes |-> 0]
RuleUnknown ==
  [business_id |-> 1, trigger |-> "contact_created", condition |-> EmptyCondition,
   action |-> [type |-> "call_webhook"], delay_minutes |-> 0]
RuleTag ==
  [business_id |-> 1, trigger |-> "contact_created", condition |-> EmptyCondition,
   action |-> [type |-> "add_tag", tag |-> "needs-followup"], delay_minutes |-> 0]
RuleStage ==
  [business_id |-> 1, trigger |-> "contact_created", condition |-> NullCondition,
   action |-> [type |-> "update_stage", stage |-> "Won"], delay_minutes |-> 30]
RuleTagOtherTenant ==
  [business_id |-> 2, trigger |-> "contact_created", condition |-> EmptyCondition,
   action |-> [type |-> "add_tag", tag |-> "needs-followup"], delay_minutes |-> 0]
RuleWonTemplate ==
  [business_id |-> 1, trigger |-> "contact_created",
   condition |-> Condition(<<Entry("stage", Cmp("equals", Str("Won")))>>),
   action |-> [type |-> "send_template", template_id |-> 1], delay_minutes |-> 0]

RuleReply ==
  [business_id |-> 1, trigger |-> "message_received", condition |-> EmptyCondition,
   action |-> [type |-> "send_message", message |-> TextWelcome], delay_minutes |-> 0]
RuleReceivedStage ==
  [business_id |-> 1, trigger |-> "message_received", condition |-> EmptyCondition,
   action |-> [type |-> "update_stage", stage |-> "Contacted"], delay_minutes |-> 0]
ReceivedRuleCatalog == {RuleReply, RuleReceivedStage}

RuleStageChanged ==
  [business_id |-> 1, trigger |-> "stage_changed", condition |-> EmptyCondition,
   action |-> [type |-> "send_message", message |-> TextWelcome], delay_minutes |-> 0]
\* an update_stage action naming a stage outside the pipeline
RuleStageArchived ==
  [business_id |-> 1, trigger |-> "message_received", condition |-> EmptyCondition,
   action |-> [type |-> "update_stage", stage |-> "Archived"], delay_minutes |-> 0]
ProducerRuleLists == {<<RuleStageChanged, RuleReceivedStage>>, <<RuleStageChanged, RuleStageArchived>>}

RuleCatalog == {RuleWelcome, RuleUnknown, RuleTag, RuleStage, RuleWonTemplate}
TagRuleCatalog == {RuleTag, RuleTagOtherTenant}

RuleLists(catalog) == UNION { [1..n -> catalog] : n \in 0..MaxRules }

Triggers == {"contact_created", "scheduled_followup"}

EmptyFields == [k \in {} |-> Undefined]
PayloadFields == { EmptyFields, [stage |-> Str("Won")] }

\* contact_id of a payload: absent, a stored contact, or no stored contact
PayloadContacts == {NoContact, 1, GhostContact}
Payloads ==
  [business_id : Businesses, contact_id : PayloadContacts, fields : PayloadFields]

\* rules and payloads that exercise every comparison of evaluateCondition
ConditionEntries ==
  { Entry("stage", Literal(Str("Won"))),
    Entry("stage", Cmp("equals", Str("Won"))),
    Entry("stage", Cmp("not_equals", Str("Won"))),
    Entry("stage", Cmp("contains", Str("o"))),
    Entry("amount", Cmp("greater_than", Num(100))),
    Entry("amount", Cmp("less_than", Num(100))),
    Entry("stage", Cmp("matches", Str("Won"))) }
Conditions ==
  { Condition(<<e>>) : e \in ConditionEntries }
    \cup { Condition(<<e1, e2>>) : e1 \in ConditionEntries, e2 \in ConditionEntries }
ConditionRule(condition) ==
  [business_id |-> 1, trigger |-> "contact_created", condition |-> condition,
   action |-> [type |-> "send_message", message |-> TextWelcome], delay_minutes |-> 0]
FieldValues(key) ==
  IF key = "stage" THEN {Str("Won"), Str("Lost")}
  ELSE {Num(150), Num(100), Num(50), Str("n/a")}
ConditionFields ==
  UNION { { f \in [D -> UNION { FieldValues(k) : k \in D }] : \A k \in D : f[k] \in FieldValues(k) }
          : D \in SUBSET {"stage", "amount"} }
ConditionPayloads == [business_id : {1}, contact_id : {1}, fields : ConditionFields]

\* the orders in which the store may return the rows of a set
Orders(S) == { p \in [1..Cardinality(S) -> S] : \A i, j \in 1..Cardinality(S) : p[i] = p[j] => i = j }

\* fault plans: provider failures only / any failure, at most two points
SendPlans(n) == SUBSET { <<i, "send">> : i \in 1..n }
Points(n) == {<<0, "fetch">>} \cup ((1..n) \X {"send", "store", "logS", "logF"})
FaultPlans(n) == { P \in SUBSET Points(n) : Cardinality(P) <= 2 }


(***************************************************************************)
(* Operations.                                                             *)
(***************************************************************************)
Commit(s) ==
  /\ contacts' = s.contacts
  /\ tags' = s.tags
  /\ msgs' = s.msgs
  /\ rules' = s.rules
  /\ logs' = s.logs
  /\ hist' = s.hist
  /\ outbox' = s.outbox
  /\ UNCHANGED <<uniqueTags, now, adders>>

Done(op, arg, order, r) ==
  /\ Commit(r.s)
  /\ ops' = ops + 1
  /\ last' = [op |-> op, arg |-> arg, order |-> order, events |-> r.s.events, err |-> r.err]
  /\ UNCHANGED runs

\* a collaborator calls triggerAutomation(trigger, data); the environment
\* fails at the points of one plan: sends only, or store queries as well
DispatchUnder(limit, storeFails) ==
  /\ ops < limit
  /\ \E trigger \in Triggers, data \in Payloads :
       \E order \in Orders(findMatchingRules(Store, trigger, data.business_id)) :
         \E plan \in (IF storeFails THEN FaultPlans(Len(order)) ELSE SendPlans(Len(order))) :
           Done("dispatch", data.contact_id, order, triggerAutomation(Store, trigger, data, order, plan))

\* a contact_created dispatch whose payload carries stage and amount fields
DispatchFields ==
  /\ ops < MaxDispatches
  /\ \E data \in ConditionPayloads :
       \E order \in Orders(findMatchingRules(Store, "contact_created", data.business_id)) :
         Done("dispatch", data, order, triggerAutomation(Store, "contact_created", data, order, {}))

\* POST /webhook with a message of a stored contact; one query of the
\* dispatch or of the classifier may fail, or the provider may reject a send
SinglePlans(n) == { P \in SUBSET Points(n) : Cardinality(P) <= 1 }
AnalyzeFaults == {{}, {"select"}, {"update"}, {"history"}, {"tag"}, {"schedule"}}
WebhookTexts == {TextProceed, TextLetMeThink, TextHello}
WebhookUnder(limit, faulty) ==
  /\ ops < limit
  /\ \E text \in WebhookTexts :
       \E order \in Orders(findMatchingRules(Store, "message_received", 1)) :
         \E plan \in (IF faulty THEN SinglePlans(Len(order)) ELSE {{}}),
            f \in (IF faulty THEN AnalyzeFaults ELSE {{}}) :
           Done("webhook", [text |-> text, f |-> f], order,
                processIncomingMessage(Store, 1, 1, text, order, plan, f))
Webhook == WebhookUnder(1, TRUE)

\* webhook calls in which nothing fails, between runs of the hourly job
WebhookBetween == WebhookUnder(MaxOps, FALSE)

\* the provider may reject a send; every store query succeeds
Dispatch == DispatchUnder(MaxDispatches, FALSE)

\* store queries may fail as well
DispatchFaulty == DispatchUnder(1, TRUE)

\* a call of triggerAutomation between operations of the follow-up service
DispatchBetween == DispatchUnder(MaxOps, FALSE)

\* POST /api/followup/analyze/:messageId
Analyze ==
  /\ ops < MaxOps
  /\ \E messageId \in 1..(Len(msgs) + 1) :
       Done("analyze", messageId, << >>, analyzeMessageForDealStatus(Store, messageId, {}))

\* the hourly cron job or POST /api/followup/process
Sweep ==
  /\ ops < MaxOps
  /\ \E order \in Orders(contactsNeedingFollowUp(Store)) :
       \E plan \in SendPlans(Len(order)) :
         Done("sweep", 0, order, processPendingFollowUps(Store, order, plan))

\* POST /api/contacts/:id/tags: a plain INSERT
RouteTags == {"followup-sent"}
AddTagRoute ==
  /\ ops < MaxOps
  /\ \E c \in ContactIds, tag \in RouteTags :
       Done("add_tag_route", c, << >>, InsertTag(Store, contacts[c].business_id, c, tag))

\* the SELECT of addContactTag / addTagAction by caller p, for contact 1
TagSeen(p) ==
  \E i \in 1..Len(tags) :
    /\ tags[i].contact_id = 1
    /\ tags[i].tag = adders[p].tag
    /\ p = "action" => tags[i].business_id = 1
CheckTag ==
  \E p \in Adders :
    /\ adders[p].pc = "check"
    /\ adders' = [adders EXCEPT ![p].pc = IF TagSeen(p) THEN "done" ELSE "insert"]
    /\ UNCHANGED <<contacts, tags, msgs, rules, logs, hist, outbox, uniqueTags, now, ops, last, runs>>

\* the INSERT that follows a SELECT which found no row
InsertRow ==
  \E p \in Adders :
    /\ adders[p].pc = "insert"
    /\ LET r == InsertTag(Store, 1, 1, adders[p].tag)
       IN /\ tags' = r.s.tags
          /\ adders' = [adders EXCEPT ![p].pc = "done", ![p].err = r.err]
    /\ UNCHANGED <<contacts, msgs, rules, logs, hist, outbox, uniqueTags, now, ops, last, runs>>

\* the SELECT of a run of processPendingFollowUps
SweepSelect ==
  \E p \in {"cron", "manual"} :
    /\ runs[p].pc = "select"
    /\ \E order \in Orders(contactsNeedingFollowUp(Store)) :
         runs' = [runs EXCEPT ![p].rows = [i \in 1..Len(order) |-> FollowUpRow(Store, order[i])],
                              ![p].pc = IF Len(order) = 0 THEN "done" ELSE "send"]
    /\ UNCHANGED <<contacts, tags, msgs, rules, logs, hist, outbox, uniqueTags, now, ops, last, adders>>

\* one iteration of its for loop, on the next row it selected
SweepSend ==
  \E p \in {"cron", "manual"} :
    /\ runs[p].pc = "send"
    /\ Commit(ProcessContact(Store, Head(runs[p].rows), {}).s)
    /\ runs' = [runs EXCEPT ![p].rows = Tail(@),
                            ![p].pc = IF Len(runs[p].rows) = 1 THEN "done" ELSE "send"]
    /\ UNCHANGED <<ops, last>>

\* the SELECT of analyzeMessageForDealStatus(1), and the rest of it
ClassifyRead ==
  /\ runs["classifier"].pc = "read"
  /\ runs' = [runs EXCEPT !["classifier"].stage = contacts[msgs[1].contact_id].stage,
                          !["classifier"].pc = "write"]
  /\ UNCHANGED <<contacts, tags, msgs, rules, logs, hist, outbox, uniqueTags, now, ops, last, adders>>
ClassifyWrite ==
  /\ runs["classifier"].pc = "write"
  /\ Commit(AnalyzeRow(Store, msgs[1], runs["classifier"].stage, {}).s)
  /\ runs' = [runs EXCEPT !["classifier"].pc = "done"]
  /\ UNCHANGED <<ops, last>>

\* the UPDATE of an update_stage action of a rule, for contact 1
StageAction ==
  /\ runs["action"].pc = "update"
  /\ Commit(updateStageAction(Store, RuleReceivedStage.action, [contact_id |-> 1], {}).s)
  /\ runs' = [runs EXCEPT !["action"].pc = "done"]
  /\ UNCHANGED <<ops, last>>

TickSteps == {25}
TickUnder(limit) ==
  /\ \E d \in TickSteps : now + d <= limit /\ now' = now + d
  /\ UNCHANGED <<contacts, tags, msgs, rules, logs, hist, outbox, uniqueTags, ops, last, adders, runs>>

Tick == TickUnder(MaxTime)

\* the hours over which repeated runs of the hourly job are followed
SweepHorizon == 150

(***************************************************************************)
(* Initial states and specifications.                                      *)
(***************************************************************************)
NoOp == [op |-> "init", arg |-> 0, order |-> << >>, events |-> << >>, err |-> ""]

InitCommon ==
  /\ adders = NoAdders
  /\ runs = NoRuns
  /\ tags = << >>
  /\ logs = << >>
  /\ hist = << >>
  /\ outbox = << >>
  /\ now = 0
  /\ ops = 0
  /\ last = NoOp

\* the engine over a set of stored rules; every contact is a new contact
InitEngine ==
  /\ InitCommon
  /\ contacts = [c \in ContactIds |-> [business_id |-> ContactBusiness(c), stage |-> "New", last_active |-> TRUE]]
  /\ msgs = << >>
  /\ rules \in RuleLists(RuleCatalog)
  /\ uniqueTags = FALSE

\* the follow-up service: contacts in any stage, each with one inbound
\* message received at hour 0
InboundAtZero(c, text) == [contact_id |-> c, direction |-> "inbound", content |-> text, sent_at |-> 0]
InitFollowUp ==
  /\ InitCommon
  /\ contacts \in [ContactIds -> [business_id : {1}, stage : Stages, last_active : {TRUE}]]
  /\ \E t \in Texts : msgs = <<InboundAtZero(1, t), InboundAtZero(2, TextHello)>>
  /\ rules = << >>
  /\ uniqueTags = FALSE

\* both services over the tag rules; contact 1 has an undecided message
InitTags ==
  /\ InitCommon
  /\ contacts = [c \in ContactIds |-> [business_id |-> ContactBusiness(c), stage |-> "New", last_active |-> TRUE]]
  /\ msgs = <<InboundAtZero(1, TextLetMeThink), InboundAtZero(2, TextHello)>>
  /\ rules \in RuleLists(TagRuleCatalog)
  /\ uniqueTags \in BOOLEAN

\* the engine over one rule with a condition
InitCondition ==
  /\ InitCommon
  /\ contacts = [c \in ContactIds |-> [business_id |-> ContactBusiness(c), stage |-> "New", last_active |-> TRUE]]
  /\ msgs = << >>
  /\ \E condition \in Conditions, delay \in {0, 30} :
       rules = <<[ConditionRule(condition) EXCEPT !.delay_minutes = delay]>>
  /\ uniqueTags = FALSE

\* three callers about to add the same tag to contact 1, under either
\* version of the contact_tags table
RaceTags == {"needs-followup", "followup-sent"}
InitRace ==
  /\ \E t \in RaceTags : adders = [p \in Adders |-> [pc |-> "check", tag |-> t, err |-> ""]]
  /\ runs = NoRuns
  /\ tags = << >>
  /\ logs = << >>
  /\ hist = << >>
  /\ outbox = << >>
  /\ now = 0
  /\ ops = 0
  /\ last = NoOp
  /\ \E stage \in {"New", "Qualified"} :
       contacts = [c \in ContactIds |-> [business_id |-> ContactBusiness(c), stage |-> stage,
                                         last_active |-> TRUE]]
  /\ msgs = << >>
  /\ rules = << >>
  /\ uniqueTags \in BOOLEAN

\* the hourly job alone, over days: two contacts that wrote at hour 0 and
\* stay in their stages
InitSweeps ==
  /\ InitCommon
  /\ contacts \in [ContactIds -> [business_id : {1}, stage : {"New", "Contacted", "Won"}, last_active : {TRUE}]]
  /\ msgs = <<InboundAtZero(1, TextHello), InboundAtZero(2, TextHello)>>
  /\ rules = << >>
  /\ uniqueTags \in BOOLEAN

\* at hour 25 the hourly job and an on-demand run start together with the
\* classifier on the unanalysed message 1 and an update_stage action
InitOverlap ==
  /\ adders = NoAdders
  /\ runs = [p \in Runners |-> [pc |-> CASE p = "classifier" -> "read" [] p = "action" -> "update"
                                           [] OTHER -> "select",
                                  rows |-> << >>, stage |-> ""]]
  /\ tags = << >> /\ logs = << >> /\ hist = << >> /\ outbox = << >>
  /\ now = 25 /\ ops = 0 /\ last = NoOp
  /\ \E stage \in {"New", "Qualified"} :
       contacts = [c \in ContactIds |-> [business_id |-> ContactBusiness(c), stage |-> stage,
                                         last_active |-> TRUE]]
  /\ \E t \in {TextProceed, TextNoThanks} : msgs = <<InboundAtZero(1, t), InboundAtZero(2, TextHello)>>
  /\ rules = << >>
  /\ uniqueTags \in BOOLEAN

\* the classifier over messages mixing the keyword lists
InitClassify ==
  /\ InitCommon
  /\ \E stage \in {"New", "Negotiation", "Won"} :
       contacts = [c \in ContactIds |-> [business_id |-> ContactBusiness(c),
                                         stage |-> IF c = 1 THEN stage ELSE "New", last_active |-> TRUE]]
  /\ \E t \in PriorityTexts : msgs = <<InboundAtZero(1, t)>>
  /\ rules = << >>
  /\ uniqueTags = FALSE

\* the callers of triggerAutomation and the hourly job, over stored
\* stage_changed and message_received rules
InitProducers ==
  /\ InitCommon
  /\ \E stage \in {"New", "Negotiation"} :
       contacts = [c \in ContactIds |-> [business_id |-> ContactBusiness(c),
                                         stage |-> IF c = 1 THEN stage ELSE "New", last_active |-> TRUE]]
  /\ msgs = <<InboundAtZero(2, TextHello)>>
  /\ rules \in ProducerRuleLists
  /\ uniqueTags = FALSE

\* the webhook over message_received rules; contact 1 is in New or in
\* Negotiation and has sent nothing yet
InitWebhook ==
  /\ InitCommon
  /\ \E stage \in {"New", "Negotiation"} :
       contacts = [c \in ContactIds |-> [business_id |-> ContactBusiness(c),
                                         stage |-> IF c = 1 THEN stage ELSE "New", last_active |-> TRUE]]
  /\ msgs = <<InboundAtZero(2, TextHello)>>
  /\ rules \in RuleLists(ReceivedRuleCatalog)
  /\ uniqueTags = FALSE

NextEngine == Dispatch
NextWebhook == Webhook
NextClassify == Analyze
NextRace == CheckTag \/ InsertRow
NextProducers == WebhookBetween \/ Sweep \/ Tick
NextCondition == DispatchFields
NextFault == DispatchFaulty
NextFollowUp == Analyze \/ Sweep \/ AddTagRoute \/ Tick
NextTags == DispatchBetween \/ Analyze \/ Sweep \/ Tick

Spec == InitEngine /\ [][NextEngine]_vars
SpecFault == InitEngine /\ [][NextFault]_vars
SpecFollowUp == InitFollowUp /\ [][NextFollowUp]_vars
SpecTags == InitTags /\ [][NextTags]_vars
SpecClassify == InitClassify /\ [][NextClassify]_vars
\* time keeps passing, and the webhook and the hourly job keep being called
\* as long as the bound on operations allows (a webhook call is enabled in
\* every state with ops < MaxOps)
SpecProducers ==
  InitProducers /\ [][NextProducers]_vars /\ WF_vars(Tick) /\ <>(ops >= MaxOps)
SpecSweeps == InitSweeps /\ [][Sweep \/ TickUnder(SweepHorizon)]_vars
SpecOverlap ==
  InitOverlap /\ [][SweepSelect \/ SweepSend \/ ClassifyRead \/ ClassifyWrite \/ StageAction]_vars
SpecRace == InitRace /\ [][NextRace]_vars
SpecWebhook == InitWebhook /\ [][NextWebhook]_vars
SpecCondition == InitCondition /\ [][NextCondition]_vars



(***************************************************************************)
(* Reading a step: the rows an operation added, and its logger lines.      *)
(***************************************************************************)
IsStep(op) == ops' = ops + 1 /\ last'.op = op
HasEvent(l, ref, ev) == \E k \in 1..Len(l.events) : l.events[k].ref = ref /\ l.events[k].ev = ev
HasError(l, ref, ev, msg) == \E k \in 1..Len(l.events) : l.events[k] = [ref |-> ref, ev |-> ev, msg |-> msg]
\* the loop of the dispatch reached the rule
Visited(l, ruleId) == HasEvent(l, ruleId, "matched") \/ HasEvent(l, ruleId, "not_matched")
NewLogs == { k \in 1..Len(logs') : k > Len(logs) }
NewOutbox == { k \in 1..Len(outbox') : k > Len(outbox) }
TagCount(t, c, tag) == Cardinality({ k \in 1..Len(t) : t[k].contact_id = c /\ t[k].tag = tag })
\* the send of the action of the rule succeeded: a "sent" line after the
\* rule's "matched" line and before the loop reached another rule
SentFor(l, ruleId) ==
  \E k, j \in 1..Len(l.events) :
    /\ k < j
    /\ l.events[k].ref = ruleId /\ l.events[k].ev = "matched"
    /\ l.events[j].ev = "sent"
    /\ \A m \in (k + 1)..(j - 1) : l.events[m].ev \notin {"matched", "not_matched"}
\* the rows of automation_logs the step wrote for a rule with a status
NewLogsOf(ruleId, status) ==
  { k \in NewLogs : logs'[k].rule_id = ruleId /\ logs'[k].status = status }
NewTags == { k \in 1..Len(tags') : k > Len(tags) }
NewRules == { k \in 1..Len(rules') : k > Len(rules) }
\* the step is analyzeMessageForDealStatus on a stored inbound message
AnalyzesInbound ==
  /\ IsStep("analyze")
  /\ last'.arg \in 1..Len(msgs)
  /\ msgs[last'.arg].direction = "inbound"
\* the row of processPendingFollowUps for which the loop sends
Eligible(row) ==
  /\ HasFollowUpRule(row.stage)
  /\ row.followup_count < FindFollowUpRule(row.stage).maxFollowUps
  /\ now - row.last_message_time >= FindFollowUpRule(row.stage).hoursAfterLastMessage
\* the inbound texts analyzeMessageForDealStatus classifies Won, and Lost
WonTexts == { t \in Texts \cup {TextHello} : DealStatus(toLowerCase(t)).newStage = "Won" }
LostTexts == { t \in Texts \cup {TextHello} : DealStatus(toLowerCase(t)).newStage = "Lost" }
TextsClassified(to) == IF to = "Won" THEN WonTexts ELSE LostTexts
KnownActionTypes == {"send_message", "send_template", "update_stage", "add_tag"}
\* the messages of the errors an action raises by itself
ActionErrors ==
  {"Failed to send message", "Failed to send template message", "Contact not found",
   "Template not found"}
    \cup { "Contact ID required for " \o t \o " action" : t \in KnownActionTypes }

(***************************************************************************)
(* C1.  triggerAutomation returns normally for every trigger and payload   *)
(* and for every failure of a store query or of a send during the          *)
(* dispatch, a failed fetch of the rules and a failed INSERT of a log row  *)
(* included: no error reaches the caller.                                  *)
(***************************************************************************)
C1_NeverThrows == last.op = "dispatch" => last.err = ""

\* the action of a rule failed, the INSERT of its failed row was rejected
\* too, and the dispatch still returned normally
C1_Witness ==
  /\ last.op = "dispatch"
  /\ last.err = ""
  /\ \E i \in 1..Len(last.order) : HasError(last, last.order[i], "error", "Failed to send message")
  /\ HasError(last, 0, "trigger_error", StoreError)

(***************************************************************************)
(* C2.  In one dispatch, when the action of a matching rule raises (send   *)
(* failure, contact not found, missing contact_id), a failed               *)
(* automation_logs row carrying the error message is written for that      *)
(* rule, and the loop still visits every other rule of the dispatch.       *)
(***************************************************************************)
C2_FailureIsolated ==
  [][IsStep("dispatch") =>
       \A i \in 1..Len(last'.order), msg \in ActionErrors :
         HasError(last', last'.order[i], "error", msg) =>
           /\ \E k \in NewLogsOf(last'.order[i], "failed") : logs'[k].error_message = msg
           /\ \A j \in 1..Len(last'.order) : Visited(last', last'.order[j])]_vars

(***************************************************************************)
(* C3.  In one run of processPendingFollowUps a failed send for one        *)
(* selected contact does not abort the run: every other selected contact   *)
(* that is eligible (a rule for its stage, fewer follow-ups than the       *)
(* maximum, enough hours since its last message) has its follow-up handed  *)
(* to the provider and carries the tag followup-sent afterwards.           *)
(***************************************************************************)
C3_SweepIsolatesFailures ==
  [][IsStep("sweep") =>
       \A i \in 1..Len(last'.order) :
         LET c == last'.order[i]
         IN (Eligible(FollowUpRow(Store, c)) /\ ~HasEvent(last', c, "send_error")) =>
              /\ \E k \in NewOutbox : outbox'[k].to = c
              /\ TagCount(tags', c, "followup-sent") >= 1]_vars

(***************************************************************************)
(* C4.  analyzeMessageForDealStatus inserts no scheduled_followup row into *)
(* automation_rules for a contact whose stage is Won or Lost, whatever the *)
(* message says; the call that itself moves the contact to Won or Lost     *)
(* inserts none either.                                                    *)
(***************************************************************************)
C4_NoFollowUpForTerminal ==
  [][AnalyzesInbound =>
       LET c == msgs[last'.arg].contact_id
       IN (contacts[c].stage \in {"Won", "Lost"} \/ contacts'[c].stage \in {"Won", "Lost"}) =>
            \A k \in NewRules : rules'[k].trigger # "scheduled_followup"]_vars

\* an undecided message of a contact that was Won already has been analysed:
\* scheduleFollowUp ran and inserted nothing
C4_Witness ==
  /\ ops = 1
  /\ last.op = "analyze" /\ last.arg = 2
  /\ contacts[2].stage = "Won"
  /\ hist = << >>
  /\ DealStatus(toLowerCase(msgs[2].content)).newStage = ""
  /\ rules = << >>

(***************************************************************************)
(* C5.  A contact whose number of followup-sent tags has reached (or       *)
(* passed) maxFollowUps of the followUpRules entry of its stage is sent    *)
(* nothing by processPendingFollowUps and gets no new tag from it.         *)
(***************************************************************************)
C5_MaxFollowUpsRespected ==
  [][IsStep("sweep") =>
       \A c \in ContactIds :
         (/\ HasFollowUpRule(contacts[c].stage)
          /\ FollowUpCount(Store, c) >= FindFollowUpRule(contacts[c].stage).maxFollowUps) =>
              /\ \A k \in NewOutbox : outbox'[k].to # c
              /\ \A k \in NewTags : tags'[k].contact_id # c]_vars

\* a sweep selected a contact that had used up its follow-ups and skipped it
C5_Witness ==
  /\ last.op = "sweep"
  /\ \E i \in 1..Len(last.order) :
       /\ HasEvent(last, last.order[i], "max_followups_reached")
       /\ FollowUpCount(Store, last.order[i]) >=
            FindFollowUpRule(contacts[last.order[i]].stage).maxFollowUps

C7_WonLostTransition ==
  [][AnalyzesInbound =>
       \A c \in {msgs[last'.arg].contact_id}, to \in {"Won", "Lost"} :
          msgs[last'.arg].content \in TextsClassified(to) =>
            /\ contacts'[c].stage = to
            /\ hist' = Append(hist, [business_id |-> contacts[c].business_id, contact_id |-> c,
                                      from_stage |-> contacts[c].stage, to_stage |-> to])
            /\ TagCount(tags', c, IF to = "Won" THEN "deal-closed" ELSE "deal-lost") >= 1
            /\ rules' = rules]_vars

\* "Yes, let's proceed with the order" of a contact in Negotiation
C7_Witness ==
  /\ ops = 1
  /\ last.op = "analyze" /\ last.arg = 1
  /\ msgs[1].content = TextProceed
  /\ contacts[1].stage = "Won"
  /\ hist = <<[business_id |-> 1, contact_id |-> 1, from_stage |-> "Negotiation", to_stage |-> "Won"]>>
  /\ TagCount(tags, 1, "deal-closed") = 1
  /\ rules = << >>

(***************************************************************************)
(* C8.  For the inbound message "I need to think about it" of a contact in *)
(* stage Qualified, analyzeMessageForDealStatus classifies the message     *)
(* NeedsFollowUp, adds the tag needs-followup, leaves the stage Qualified  *)
(* and inserts one scheduled_followup rule with delay_minutes 1440.        *)
(***************************************************************************)
C8_ThinkNeedsFollowUp ==
  [][(AnalyzesInbound /\ msgs[last'.arg].content = TextThink
        /\ contacts[msgs[last'.arg].contact_id].stage = "Qualified") =>
       LET c == msgs[last'.arg].contact_id
       IN /\ DealStatus(toLowerCase(TextThink)).addTag = "needs-followup"
          /\ TagCount(tags', c, "needs-followup") >= 1
          /\ contacts'[c].stage = "Qualified"
          /\ Cardinality(NewRules) = 1
          /\ \A k \in NewRules : rules'[k].trigger = "scheduled_followup"
                                  /\ rules'[k].delay_minutes = 24 * 60]_vars

(***************************************************************************)
(* C8, as the code has it.  "I need to think about it" holds no keyword as *)
(* a whole word ("think" is neither "thinking" nor "let me think"): the    *)
(* message of a Qualified contact is classified Neutral, no tag is added,  *)
(* stage and history stay as they are, and one scheduled_followup rule     *)
(* with delay_minutes 1440 for the contact is inserted.                    *)
(***************************************************************************)
C8_ThinkIsNeutral ==
  [][(AnalyzesInbound /\ msgs[last'.arg].content = TextThink
        /\ contacts[msgs[last'.arg].contact_id].stage = "Qualified") =>
       LET c == msgs[last'.arg].contact_id
       IN /\ DealStatus(toLowerCase(TextThink)) = [newStage |-> "", addTag |-> ""]
          /\ tags' = tags
          /\ contacts' = contacts
          /\ hist' = hist
          /\ rules' = Append(rules, FollowUpRule(contacts[c].business_id, c, "Qualified", 1440))]_vars

\* the message of the Qualified contact 1 has been analysed
C8_Witness ==
  /\ ops = 1
  /\ last.op = "analyze" /\ last.arg = 1
  /\ msgs[1].content = TextThink
  /\ contacts[1].stage = "Qualified"
  /\ tags = << >>
  /\ Len(rules) = 1 /\ rules[1].delay_minutes = 1440

(***************************************************************************)
(* C9.  When a dispatch reaches a matching rule whose action.type is none  *)
(* of send_message, send_template, update_stage, add_tag, no failed        *)
(* automation_logs row is written for that rule, the loop goes on to every *)
(* later rule of the dispatch, and a dispatch made of such rules only      *)
(* changes no contact, tag or message and sends nothing.                   *)
(***************************************************************************)
C9_UnknownActionBenign ==
  [][IsStep("dispatch") =>
       /\ \A i \in 1..Len(last'.order) :
            HasEvent(last', last'.order[i], "unknown_action_type") =>
              /\ NewLogsOf(last'.order[i], "failed") = {}
              /\ \A j \in (i + 1)..Len(last'.order) : Visited(last', last'.order[j])
       /\ (\A i \in 1..Len(last'.order) : rules[last'.order[i]].action.type \notin KnownActionTypes)
            => UNCHANGED <<contacts, tags, msgs, outbox>>]_vars

KeyMatches(e, data) ==
  LET actualValue == Field(data, e.key)
      value == e.expected.value
  IN IF e.expected.kind = "literal" THEN actualValue = value
     ELSE CASE e.expected.operator = "equals" -> actualValue = value
            [] e.expected.operator = "not_equals" -> actualValue # value
            [] e.expected.operator = "contains" -> Includes(StringOf(actualValue), StringOf(value))
            [] e.expected.operator = "greater_than" ->
                 actualValue.t = "number" /\ value.t = "number" /\ actualValue.v > value.v
            [] e.expected.operator = "less_than" ->
                 actualValue.t = "number" /\ value.t = "number" /\ actualValue.v < value.v
            [] OTHER -> FALSE

C11_ConditionIsConjunction ==
  [][IsStep("dispatch") =>
       \A i \in 1..Len(last'.order) :
         LET ruleId == last'.order[i]
             entries == rules[ruleId].condition.entries
             all == \A k \in 1..Len(entries) : KeyMatches(entries[k], last'.arg)
         IN /\ HasEvent(last', ruleId, "matched") <=> all
            /\ ~all => (HasEvent(last', ruleId, "not_matched") /\ NewLogs = {})]_vars

(***************************************************************************)
(* C12.  In processIncomingMessage the inbound message is stored before    *)
(* the message_received dispatch and before the classifier run (both are   *)
(* handed its id), and an error raised inside the dispatch or inside the   *)
(* classifier neither makes processIncomingMessage fail nor removes the    *)
(* stored message.                                                         *)
(***************************************************************************)
C12_WebhookIsolated ==
  [][IsStep("webhook") =>
       LET id == Len(msgs) + 1
       IN /\ last'.err = ""
          /\ Len(msgs') >= id /\ SubSeq(msgs', 1, Len(msgs)) = msgs
          /\ msgs'[id] = [contact_id |-> 1, direction |-> "inbound",
                          content |-> last'.arg.text, sent_at |-> now]
          /\ \A k \in NewLogs : logs'[k].trigger_data.fields.message_id = Num(id)
          /\ (last'.arg.f = {} /\ last'.arg.text \in WonTexts) => contacts'[1].stage = "Won"]_vars

\* both the dispatch and the classifier failed inside one webhook call, and
\* the message is stored
C12_Witness ==
  /\ last.op = "webhook"
  /\ last.err = ""
  /\ HasEvent(last, 0, "trigger_error")
  /\ HasEvent(last, 0, "analyze_error")
  /\ msgs[Len(msgs)].direction = "inbound" /\ msgs[Len(msgs)].contact_id = 1

(***************************************************************************)
(* C13.  processPendingFollowUps is idempotent: a second run that follows  *)
(* a run at once (same hour, nothing in between, no failure in the second  *)
(* run) sends no message and adds no tag, and leaves the stored contacts,  *)
(* messages and tags as the first run left them.                           *)
(***************************************************************************)
\* what a second, failure-free run would do to the store s: nothing
SecondRunIdle(s) ==
  \A order \in Orders(contactsNeedingFollowUp(s)) :
    LET r == processPendingFollowUps(s, order, {})
    IN /\ r.s.outbox = s.outbox
       /\ r.s.tags = s.tags
       /\ r.s.msgs = s.msgs
       /\ r.s.contacts = s.contacts

HoldsWon == { t \in PriorityTexts : containsKeywords(toLowerCase(t), dealClosedKeywords) }
HoldsLost == { t \in PriorityTexts : containsKeywords(toLowerCase(t), dealLostKeywords) }
HoldsFollowUp == { t \in PriorityTexts : containsKeywords(toLowerCase(t), needsFollowUpKeywords) }

C14_ClassifierPriority ==
  [][AnalyzesInbound =>
       LET t == msgs[last'.arg].content
           c == msgs[last'.arg].contact_id
       IN /\ t \in HoldsWon =>
               /\ contacts'[c].stage = "Won"
               /\ TagCount(tags', c, "deal-closed") = 1
               /\ \A k \in NewTags : tags'[k].tag = "deal-closed"
          /\ t \in HoldsLost \ HoldsWon =>
               /\ contacts'[c].stage = "Lost"
               /\ TagCount(tags', c, "deal-lost") = 1
               /\ \A k \in NewTags : tags'[k].tag = "deal-lost"
          /\ t \in HoldsFollowUp \ (HoldsWon \cup HoldsLost) =>
               /\ contacts'[c].stage = contacts[c].stage
               /\ hist' = hist
               /\ TagCount(tags', c, "needs-followup") = 1
               /\ \A k \in NewTags : tags'[k].tag = "needs-followup"
          /\ t \notin HoldsWon \cup HoldsLost \cup HoldsFollowUp =>
               /\ contacts'[c].stage = contacts[c].stage
               /\ hist' = hist
               /\ tags' = tags]_vars

\* "Yes no" and "maybe Yes" hold keywords of two lists
C14_Witness ==
  /\ ops = 1
  /\ last.op = "analyze" /\ last.arg = 1
  /\ msgs[1].content \in HoldsWon \cap (HoldsLost \cup HoldsFollowUp)
  /\ contacts[1].stage = "Won"
  /\ TagCount(tags, 1, "deal-closed") = 1

(***************************************************************************)
(* C15.  Whenever the stage of a contact has changed (the classifier wrote *)
(* a pipeline_history row, or an update_stage action succeeded), a         *)
(* dispatch with trigger stage_changed follows: every stored stage_changed *)
(* rule of the business is evaluated, which for a rule with an empty       *)
(* condition leaves a row in automation_logs.                              *)
(***************************************************************************)
StageChangedRules == { i \in 1..Len(rules) : rules[i].trigger = "stage_changed" /\ rules[i].business_id = 1 }
StageChanged ==
  \/ hist # << >>
  \/ \E k \in 1..Len(logs) : logs[k].status = "success" /\ rules[logs[k].rule_id].action.type = "update_stage"
StageDispatched == \A i \in StageChangedRules : \E k \in 1..Len(logs) : logs[k].rule_id = i

C15_StageChangeDispatched ==
  (StageChanged /\ StageChangedRules # {}) ~> StageDispatched

(***************************************************************************)
(* C16.  Every scheduled_followup row that analyzeMessageForDealStatus     *)
(* inserts into automation_rules is executed later by the rule engine: a   *)
(* dispatch evaluates it, which leaves a row of that rule in               *)
(* automation_logs (its condition names the contact, its action sends the  *)
(* follow-up message).                                                     *)
(***************************************************************************)
C16_ScheduledFollowUpExecuted ==
  \A i \in 1..(MaxRules + MaxOps) :
    (i <= Len(rules) /\ rules[i].trigger = "scheduled_followup")
      ~> (\E k \in 1..Len(logs) : logs[k].rule_id = i)

(***************************************************************************)
(* C17.  In every reachable state the stage of every contact is one of     *)
(* New, Contacted, Qualified, Proposal, Negotiation, Won, Lost, whatever   *)
(* webhook calls, runs of the hourly job and actions of stored rules took  *)
(* place.                                                                  *)
(***************************************************************************)
C17_StageInEnum == \A c \in ContactIds : contacts[c].stage \in Stages

(***************************************************************************)
(* C18.  When concurrent additions of one tag to one contact have all      *)
(* finished, whatever their interleaving, contact_tags holds exactly one   *)
(* row of the pair and none of the additions has failed.                   *)
(***************************************************************************)
C18_ConcurrentTagAdds ==
  (\A p \in Adders : adders[p].pc = "done") =>
     /\ \A p \in Adders : TagCount(tags, 1, adders[p].tag) = 1
     /\ \A p \in Adders : adders[p].err = ""

(***************************************************************************)
(* C19.  The Won/Lost flow of the classifier is all-or-nothing, also when  *)
(* one of its store writes fails: no reachable state has a contact in Won  *)
(* (resp. Lost) without the pipeline_history row of that move, or without  *)
(* the tag deal-closed (resp. deal-lost).                                  *)
(***************************************************************************)
C19_WonLostAtomic ==
  \A c \in ContactIds :
    contacts[c].stage \in {"Won", "Lost"} =>
      /\ \E k \in 1..Len(hist) : hist[k].contact_id = c /\ hist[k].to_stage = contacts[c].stage
      /\ TagCount(tags, c, IF contacts[c].stage = "Won" THEN "deal-closed" ELSE "deal-lost") >= 1

(***************************************************************************)
(* C20.  In a dispatch every rule whose condition matched leaves exactly   *)
(* one new automation_logs row: with status success when its action        *)
(* completed, with status failed and the error message when its action     *)
(* raised, never both; a rule whose condition did not match leaves none.   *)
(***************************************************************************)
C20_OneLogRowPerMatch ==
  [][IsStep("dispatch") =>
       \A i \in 1..Len(last'.order) :
         LET ruleId == last'.order[i]
             rows == { k \in NewLogs : logs'[k].rule_id = ruleId }
         IN /\ HasEvent(last', ruleId, "not_matched") => rows = {}
            /\ HasEvent(last', ruleId, "matched") =>
                 /\ Cardinality(rows) = 1
                 /\ \A k \in rows :
                      IF HasEvent(last', ruleId, "error")
                      THEN /\ logs'[k].status = "failed"
                           /\ HasError(last', ruleId, "error", logs'[k].error_message)
                      ELSE logs'[k].status = "success"]_vars

(***************************************************************************)
(* C21.  delay_minutes has no effect on execution: a dispatch over rules   *)
(* with delay_minutes > 0 leaves the contacts, tags, messages, provider    *)
(* sends and automation_logs rows that the same dispatch leaves when every *)
(* delay_minutes is 0; a matching delayed rule has its log row written     *)
(* inside the call, and no row is added to automation_rules for later.     *)
(***************************************************************************)
C21_DelayHasNoEffect ==
  [][IsStep("dispatch") =>
       LET zero == [Store EXCEPT !.rules = [i \in 1..Len(rules) |-> [rules[i] EXCEPT !.delay_minutes = 0]]]
           z == triggerAutomation(zero, "contact_created", last'.arg, last'.order, {}).s
       IN /\ z.contacts = contacts' /\ z.tags = tags' /\ z.msgs = msgs'
          /\ z.outbox = outbox' /\ z.logs = logs' /\ z.hist = hist'
          /\ rules' = rules
          /\ \A i \in 1..Len(last'.order) :
               (HasEvent(last', last'.order[i], "matched") /\ rules[last'.order[i]].delay_minutes > 0) =>
                  /\ HasEvent(last', last'.order[i], "delay_not_implemented")
                  /\ \E k \in NewLogs : logs'[k].rule_id = last'.order[i]]_vars

\* a matching rule with delay_minutes = 30 has sent its message and logged
\* success within the dispatch
C21_Witness ==
  /\ last.op = "dispatch"
  /\ rules[1].delay_minutes = 30
  /\ HasEvent(last, 1, "delay_not_implemented")
  /\ outbox # << >>
  /\ \E k \in 1..Len(logs) : logs[k].rule_id = 1 /\ logs[k].status = "success"

(***************************************************************************)
(* C22.  Over any number of runs of processPendingFollowUps with time      *)
(* advancing, a contact that stays in a stage with a followUpRules entry   *)
(* is sent at most maxFollowUps follow-up messages of that stage.          *)
(***************************************************************************)
C22_MaxFollowUpsOverTime ==
  \A c \in ContactIds :
    HasFollowUpRule(contacts[c].stage) =>
      Cardinality({ k \in 1..Len(outbox) : outbox[k].to = c })
        <= FindFollowUpRule(contacts[c].stage).maxFollowUps

(***************************************************************************)
(* C23.  processPendingFollowUps never hands a follow-up to the provider   *)
(* for a contact whose stage is Won or Lost at the moment of the send,     *)
(* also when the stage changed after the run selected its contacts.        *)
(***************************************************************************)
C23_NoSendToTerminal ==
  [][\A k \in NewOutbox : contacts[outbox'[k].to].stage \notin {"Won", "Lost"}]_vars

(***************************************************************************)
(* C24.  A dispatch whose rules all carry an update_stage action changes   *)
(* nothing but the stage of the contact of the payload: no pipeline        *)
(* history row, tag, message, send or rule.  With a payload without        *)
(* contact_id no contact changes and every matched rule gets a "failed"    *)
(* log row and no "success" row.                                           *)
(***************************************************************************)
OnlyUpdateStage(order) ==
  /\ order # << >>
  /\ \A i \in 1..Len(order) : rules[order[i]].action.type = "update_stage"
C24_UpdateStageFrame ==
  [][(IsStep("dispatch") /\ OnlyUpdateStage(last'.order)) =>
       LET order == last'.order
           c == last'.arg
           matched == { i \in 1..Len(order) : HasEvent(last', order[i], "matched") }
       IN /\ hist' = hist /\ tags' = tags /\ msgs' = msgs /\ outbox' = outbox /\ rules' = rules
          /\ \A d \in ContactIds :
               /\ contacts'[d].business_id = contacts[d].business_id
               /\ contacts'[d].last_active = contacts[d].last_active
               /\ IF d = c /\ matched # {}
                  THEN \E i \in matched : contacts'[d].stage = rules[order[i]].action.stage
                  ELSE contacts'[d].stage = contacts[d].stage
          /\ c = NoContact =>
               \A i \in matched : /\ NewLogsOf(order[i], "failed") # {}
                                  /\ NewLogsOf(order[i], "success") = {}
                                  /\ HasError(last', order[i], "error",
                                              "Contact ID required for update_stage action")]_vars

\* an update_stage rule has moved contact 1 from New to Won and left no
\* history row
C24_Witness ==
  /\ last.op = "dispatch" /\ last.arg = 1
  /\ last.order # << >>
  /\ \A i \in 1..Len(last.order) : rules[last.order[i]].action.type = "update_stage"
  /\ HasEvent(last, last.order[1], "matched")
  /\ contacts[1].stage = "Won"
  /\ hist = << >>

(***************************************************************************)
(* C25.  When analyzeMessageForDealStatus reaches scheduleFollowUp (the    *)
(* message is inbound and not classified Won or Lost), it takes the        *)
(* followUpRules entry of the stage the contact has in the store at that   *)
(* point, which is the stage it has after the call: it appends exactly one *)
(* row to automation_rules, with trigger scheduled_followup, condition     *)
(* {contact_id}, action send_message and delay_minutes =                   *)
(* hoursAfterLastMessage * 60, and appends nothing when followUpRules has  *)
(* no entry for that stage.                                                *)
(***************************************************************************)
C25_ScheduleUsesStoredStage ==
  [][(AnalyzesInbound /\ DealStatus(toLowerCase(msgs[last'.arg].content)).newStage \notin {"Won", "Lost"}) =>
       LET c == msgs[last'.arg].contact_id
           stage == contacts'[c].stage
       IN IF HasFollowUpRule(stage)
          THEN /\ Len(rules') = Len(rules) + 1
               /\ SubSeq(rules', 1, Len(rules)) = rules
               /\ LET row == rules'[Len(rules')]
                  IN /\ row.business_id = contacts'[c].business_id
                     /\ row.trigger = "scheduled_followup"
                     /\ row.condition = Condition(<<Entry("contact_id", Literal(Num(c)))>>)
                     /\ row.action = [type |-> "send_message", message |-> FollowUpText(stage)]
                     /\ row.delay_minutes = FindFollowUpRule(stage).hoursAfterLastMessage * 60
          ELSE rules' = rules]_vars

\* the undecided message of a Contacted contact has been analysed and a
\* rule with delay_minutes 48 * 60 is stored
C25_Witness ==
  /\ ops = 1
  /\ last.op = "analyze" /\ last.arg = 2
  /\ contacts[2].stage = "Contacted"
  /\ Len(rules) = 1 /\ rules[1].delay_minutes = 2880

(***************************************************************************)
(* C26.  Two runs of processPendingFollowUps that start at the same hour   *)
(* (the hourly job and an on-demand run) hand at most one follow-up        *)
(* message per contact to the provider between them.                       *)
(***************************************************************************)
C26_OneFollowUpPerContact ==
  \A c \in ContactIds : Cardinality({ k \in 1..Len(outbox) : outbox[k].to = c }) <= 1

(***************************************************************************)
(* C27.  A rule whose condition holds a greater_than or less_than entry on *)
(* a key that the payload lacks, or that holds no number in the payload,   *)
(* is not matched by the dispatch: it runs no action and gets no           *)
(* automation_logs row.                                                    *)
(***************************************************************************)
ComparesNonNumber(condition, data) ==
  \E j \in 1..Len(condition.entries) :
    LET e == condition.entries[j]
    IN /\ e.expected.kind = "object"
       /\ e.expected.operator \in {"greater_than", "less_than"}
       /\ Field(data, e.key).t # "number"
C27_NonNumberDoesNotMatch ==
  [][IsStep("dispatch") =>
       \A i \in 1..Len(last'.order) :
         ComparesNonNumber(rules[last'.order[i]].condition, last'.arg) =>
           /\ ~HasEvent(last', last'.order[i], "matched")
           /\ \A k \in NewLogs : logs'[k].rule_id # last'.order[i]]_vars

(***************************************************************************)
(* C28.  analyzeMessageForDealStatus on an inbound message of a contact    *)
(* whose stage is Won or Lost leaves the stage as it is and appends no     *)
(* pipeline_history row, whatever the message says.                        *)
(***************************************************************************)
C28_TerminalAbsorbing ==
  [][AnalyzesInbound =>
       LET c == msgs[last'.arg].contact_id
       IN contacts[c].stage \in {"Won", "Lost"} =>
            /\ contacts'[c].stage = contacts[c].stage
            /\ hist' = hist]_vars

(***************************************************************************)
(* C29.  After any sequence of analyzeMessageForDealStatus calls,          *)
(* automation_rules holds at most one row with trigger scheduled_followup  *)
(* for each contact.                                                       *)
(***************************************************************************)
ScheduledRules(c) ==
  { k \in 1..Len(rules) : /\ rules[k].trigger = "scheduled_followup"
                          /\ rules[k].condition = Condition(<<Entry("contact_id", Literal(Num(c)))>>) }
C29_OneScheduledRulePerContact ==
  \A c \in ContactIds : Cardinality(ScheduledRules(c)) <= 1

(***************************************************************************)
(* C30.  Every pipeline_history row written by analyzeMessageForDealStatus *)
(* has as from_stage the stage the contact has in the store immediately    *)
(* before the UPDATE of the same call, also when an update_stage action    *)
(* on the contact runs between the call's SELECT and its UPDATE.           *)
(***************************************************************************)
C30_FromStageIsPriorStage ==
  [][\A k \in 1..Len(hist') :
       k > Len(hist) => hist'[k].from_stage = contacts[hist'[k].contact_id].stage]_vars

====
